---------------------------- MODULE Spec2Model ----------------------------
(***************************************************************************)
(* Model of example.py: a command-line tool that loads its settings, then  *)
(* either returns a canned story (mock mode) or calls the remote chat      *)
(* completion API in a worker thread under a tenacity retry policy, maps   *)
(* the terminal outcome to a process exit status and keeps three metrics.  *)
(*                                                                         *)
(* Two threads are modelled: the main thread (pc) and the worker thread    *)
(* started by asyncio.to_thread (wpc).  The environment supplies           *)
(*   - whether OPENAI_API_KEY is available (api_key_present),              *)
(*   - the --mock flag (mock),                                             *)
(*   - the result of every openai.ChatCompletion.create call: a response   *)
(*     text or an exception of the openai.error hierarchy,                 *)
(*   - SIGINT / SIGTERM deliveries.                                        *)
(* Text is a sequence of characters so that str.strip() is computed.       *)
(***************************************************************************)
EXTENDS Integers, Sequences, FiniteSets, TLC

\* ---------------------------------------------------------------- bounds
\* longest response text the remote API returns in the model
MaxLen == 3
\* number of signals delivered to the process in one run
MaxSignals == 1

\* ------------------------------------------------------------- constants
\* class ExitCode(IntEnum)
SUCCESS == 0
CONFIG_ERROR == 1
QUOTA_EXCEEDED == 2
API_ERROR == 3

\* exit status of the interpreter when an exception other than SystemExit
\* reaches the top level (traceback printed)
UNCAUGHT_EXCEPTION_STATUS == 1

\* signal numbers of the two signals main() installs a handler for
SIGINT == 2
SIGTERM == 15
Signals == {SIGINT, SIGTERM}

\* @retry(... wait=wait_exponential(multiplier=1, min=1, max=10),
\*            stop=stop_after_attempt(3), reraise=True)
WAIT_MULTIPLIER == 1
WAIT_MIN == 1
WAIT_MAX == 10
STOP_AFTER_ATTEMPT == 3

\* the canned sentence of mock mode, one line of text
CANNED_STORY ==
    <<"Once upon a time, in a land of code, there was a sleeping unicorn.">>

\* the user-facing line printed by the RateLimitError handler
BILLING_MESSAGE ==
    <<"Quota exceeded - please check your plan at https://platform.openai.com/account/billing/plan">>

\* the marker of f"API ERROR > {e}"
API_ERROR_MARKER == <<"API ERROR > ">>

\* --------------------------------------------------------------- helpers
Max(a, b) == IF a >= b THEN a ELSE b
Min(a, b) == IF a <= b THEN a ELSE b

RECURSIVE Pow(_, _)
Pow(b, e) == IF e = 0 THEN 1 ELSE b * Pow(b, e - 1)

\* characters of a response text; " " and "\n" are whitespace to str.strip()
Whitespace == {" ", "\n"}
Chars == {" ", "a"}

RECURSIVE SeqsUpTo(_, _)
SeqsUpTo(S, n) ==
    IF n = 0 THEN {<<>>}
    ELSE LET shorter == SeqsUpTo(S, n - 1)
         IN  shorter \cup {Append(s, c) : s \in {t \in shorter : Len(t) = n - 1}, c \in S}

Texts == SeqsUpTo(Chars, MaxLen)

\* str.strip(): drop the leading and the trailing whitespace
RECURSIVE LStrip(_)
LStrip(s) == IF s # <<>> /\ Head(s) \in Whitespace THEN LStrip(Tail(s)) ELSE s

RECURSIVE RStrip(_)
RStrip(s) ==
    IF s # <<>> /\ s[Len(s)] \in Whitespace
    THEN RStrip(SubSeq(s, 1, Len(s) - 1))
    ELSE s

StripIdentity(s) == s
Strip(s) == RStrip(LStrip(s))

\* the exception classes of openai.error the code distinguishes
OpenAIErrorTypes == {"RateLimitError", "Timeout", "OpenAIError"}
ErrMsgs == {<<"insufficient_quota">>, <<"something went wrong">>}

\* what one openai.ChatCompletion.create call can do
Responses ==
    [kind : {"ok"}, type : {"none"}, text : Texts]
    \cup [kind : {"err"}, type : OpenAIErrorTypes, text : ErrMsgs]

NoResult == [kind |-> "none", type |-> "none", text |-> <<>>]


\* ----------------------------------------------------------------- state
VARIABLES
    pc,               \* position of the main thread
    wpc,              \* position of the worker thread: idle, call, wait, done
    api_key_present,  \* OPENAI_API_KEY is set in the environment or in .env
    mock,             \* the --mock flag
    handlers,         \* main() has installed its SIGINT / SIGTERM handlers
    log,              \* what each openai.ChatCompletion.create call did, in order
    waits,            \* the seconds slept between attempts, in order
    result,           \* what call_openai_with_retry returned or raised
    story,            \* the value generate_story returned
    stdout,           \* the lines printed, in order
    requests,         \* REQUEST_COUNT
    errors,           \* ERROR_COUNT
    latency_obs,      \* number of observations of REQUEST_LATENCY
    signals,          \* the signals delivered so far, in order
    exitCode          \* <<>> while running, <<status>> once the process ended

vars == <<pc, wpc, api_key_present, mock, handlers, log, waits, result, story,
          stdout, requests, errors, latency_obs, signals, exitCode>>

\* positions of the main thread inside the "with REQUEST_LATENCY.time()" block
InLatencyBlock ==
    {"Awaiting", "QuotaExceeded", "QuotaReported", "ApiError", "ApiReported"}

Init ==
    /\ pc = "Start"
    /\ wpc = "idle"
    /\ api_key_present \in BOOLEAN
    /\ mock \in BOOLEAN
    /\ handlers = FALSE
    /\ log = <<>>
    /\ waits = <<>>
    /\ result = NoResult
    /\ story = <<>>
    /\ stdout = <<>>
    /\ requests = 0
    /\ errors = 0
    /\ latency_obs = 0
    /\ signals = <<>>
    /\ exitCode = <<>>

\* ------------------------------------------------------- 1) configuration
\* Settings: openai_api_key is the only field without a default
ConfigValidAlways(key) == TRUE
ConfigValid(key) == key

\* the interpreter starts and runs the imports
start ==
    /\ pc = "Start"
    /\ pc' = "Configuring"
    /\ UNCHANGED <<wpc, api_key_present, mock, handlers, log, waits, result,
                   story, stdout, requests, errors, latency_obs, signals, exitCode>>

\* settings = Settings(): a ValidationError is logged, otherwise the rest of
\* the module body runs (metrics, metrics server, commands) and main() is called
load_settings ==
    /\ pc = "Configuring"
    /\ IF ConfigValid(api_key_present)
       THEN pc' = "Loaded"
       ELSE pc' = "ConfigError"
    /\ UNCHANGED <<wpc, api_key_present, mock, handlers, log, waits, result,
                   story, stdout, requests, errors, latency_obs, signals,
                   exitCode>>

\* sys.exit(ExitCode.CONFIG_ERROR) in the except clause: the class ExitCode is
\* defined further down the module, so evaluating the argument raises NameError;
\* nothing catches it and the interpreter ends with the status of an uncaught
\* exception
exit_config_error ==
    /\ pc = "ConfigError"
    /\ pc' = "Exit"
    /\ exitCode' = <<UNCAUGHT_EXCEPTION_STATUS>>
    /\ UNCHANGED <<wpc, api_key_present, mock, handlers, log, waits, result,
                   story, stdout, requests, errors, latency_obs, signals>>

\* ------------------------------------------------------------ 7) main()
\* for sig in (SIGINT, SIGTERM): signal.signal(sig, lambda: sys.exit(SUCCESS))
main_install_handlers ==
    /\ pc = "Loaded"
    /\ handlers' = TRUE
    /\ pc' = "Main"
    /\ UNCHANGED <<wpc, api_key_present, mock, log, waits, result, story,
                   stdout, requests, errors, latency_obs, signals,
                   exitCode>>

\* ------------------------------------------------------ 6) generate_story
\* a generate_story that ignores its mock argument
generate_story_enter_ignoring_mock ==
    /\ pc = "Main"
    /\ requests' = requests + 1
    /\ wpc' = "call"
    /\ pc' = "Awaiting"
    /\ UNCHANGED <<api_key_present, mock, handlers, log, waits, result, story,
                   stdout, errors, latency_obs, signals, exitCode>>

\* asyncio.run(generate_story(mock)) up to the return of the mock branch or
\* to the await of asyncio.to_thread(call_openai_with_retry, prompt)
generate_story_enter ==
    /\ pc = "Main"
    /\ requests' = requests + 1
    /\ IF mock
       THEN /\ story' = CANNED_STORY
            /\ latency_obs' = latency_obs + 1
            /\ pc' = "Returned"
            /\ wpc' = wpc
       ELSE /\ wpc' = "call"
            /\ pc' = "Awaiting"
            /\ UNCHANGED <<story, latency_obs>>
    /\ UNCHANGED <<api_key_present, mock, handlers, log, waits, result,
                   stdout, errors, signals, exitCode>>

\* ------------------------------------------ 5) call_openai_with_retry
\* retry=retry_if_exception_type((RateLimitError, Timeout))
ShouldRetryAnyError(type) == TRUE
ShouldRetry(type) == type \in {"RateLimitError", "Timeout"}

\* stop=stop_after_attempt(3): asked after attempt number n has failed
StopOneAttemptLater(n) == n >= STOP_AFTER_ATTEMPT + 1
StopAfterAttempt(n) == n >= STOP_AFTER_ATTEMPT

\* wait=wait_exponential(multiplier=1, min=1, max=10): the seconds slept after
\* attempt number n has failed, multiplier * 2^(n-1) clamped to [min, max]
WaitFromTwo(n) ==
    Max(Max(0, WAIT_MIN), Min(WAIT_MULTIPLIER * Pow(2, n), WAIT_MAX))
wait_exponential(n) ==
    Max(Max(0, WAIT_MIN), Min(WAIT_MULTIPLIER * Pow(2, n - 1), WAIT_MAX))

\* reraise=True: once the attempts are used up the last exception is raised
\* as it is, where reraise=False raises a RetryError around it
RaiseRetryError(e) == [kind |-> "err", type |-> "RetryError", text |-> e.text]
Reraise(e) == e

\* one attempt: _call_openai_sync calls openai.ChatCompletion.create, which
\* answers r, and the retry decorator decides what follows
attempt(r) ==
    /\ wpc = "call"
    /\ log' = Append(log, r)
    /\ IF r.kind = "ok"
       THEN /\ result' = [kind |-> "ok", type |-> "none", text |-> Strip(r.text)]
            /\ wpc' = "done"
            /\ waits' = waits
       ELSE IF ~ShouldRetry(r.type)
       THEN /\ result' = r
            /\ wpc' = "done"
            /\ waits' = waits
       ELSE IF StopAfterAttempt(Len(log) + 1)
       THEN /\ result' = Reraise(r)
            /\ wpc' = "done"
            /\ waits' = waits
       ELSE /\ result' = result
            /\ wpc' = "wait"
            /\ waits' = Append(waits, wait_exponential(Len(log) + 1))
    /\ UNCHANGED <<pc, api_key_present, mock, handlers, story, stdout,
                   requests, errors, latency_obs, signals, exitCode>>

\* the sleep between two attempts is over
backoff_elapsed ==
    /\ wpc = "wait"
    /\ wpc' = "call"
    /\ UNCHANGED <<pc, api_key_present, mock, handlers, log, waits, result,
                   story, stdout, requests, errors, latency_obs, signals, exitCode>>

\* --------------------------------------- 6) generate_story, after the await
\* the except clause of generate_story an exception of class type reaches
ExceptClauseTimeoutAsQuota(type) ==
    IF type \in {"RateLimitError", "Timeout"} THEN "QuotaExceeded"
    ELSE IF type \in OpenAIErrorTypes THEN "ApiError"
    ELSE "Uncaught"
ExceptClause(type) ==
    IF type = "RateLimitError" THEN "QuotaExceeded"
    ELSE IF type \in OpenAIErrorTypes THEN "ApiError"
    ELSE "Uncaught"

\* ERROR_COUNT.inc() of an except clause
ErrorCountIncPerAttempt(n) == n + Len(log)
ErrorCountInc(n) == n + 1

\* the await of asyncio.to_thread completes: the story is returned, or the
\* exception is raised into the try block and an except clause counts it
await_completes ==
    /\ pc = "Awaiting"
    /\ wpc = "done"
    /\ IF result.kind = "ok"
       THEN /\ story' = result.text
            /\ latency_obs' = latency_obs + 1
            /\ pc' = "Returned"
            /\ UNCHANGED <<errors, exitCode>>
       ELSE IF ExceptClause(result.type) = "Uncaught"
       THEN /\ latency_obs' = latency_obs + 1
            /\ exitCode' = <<UNCAUGHT_EXCEPTION_STATUS>>
            /\ pc' = "Exit"
            /\ UNCHANGED <<story, errors>>
       ELSE /\ errors' = ErrorCountInc(errors)
            /\ pc' = ExceptClause(result.type)
            /\ UNCHANGED <<story, latency_obs, exitCode>>
    /\ UNCHANGED <<wpc, api_key_present, mock, handlers, log, waits, result,
                   stdout, requests, signals>>

\* typer.secho of the RateLimitError clause
report_quota ==
    /\ pc = "QuotaExceeded"
    /\ stdout' = Append(stdout, BILLING_MESSAGE)
    /\ pc' = "QuotaReported"
    /\ UNCHANGED <<wpc, api_key_present, mock, handlers, log, waits, result,
                   story, requests, errors, latency_obs, signals,
                   exitCode>>

\* sys.exit(ExitCode.QUOTA_EXCEEDED)
exit_quota ==
    /\ pc = "QuotaReported"
    /\ latency_obs' = latency_obs + 1
    /\ exitCode' = <<QUOTA_EXCEEDED>>
    /\ pc' = "Exit"
    /\ UNCHANGED <<wpc, api_key_present, mock, handlers, log, waits, result,
                   story, stdout, requests, errors, signals>>

\* typer.secho(f"API ERROR > {e}") of the OpenAIError clause
report_api_error ==
    /\ pc = "ApiError"
    /\ stdout' = Append(stdout, API_ERROR_MARKER \o result.text)
    /\ pc' = "ApiReported"
    /\ UNCHANGED <<wpc, api_key_present, mock, handlers, log, waits, result,
                   story, requests, errors, latency_obs, signals,
                   exitCode>>

\* an OpenAIError clause that ends the process with the success status
exit_api_error_as_success ==
    /\ pc = "ApiReported"
    /\ latency_obs' = latency_obs + 1
    /\ exitCode' = <<SUCCESS>>
    /\ pc' = "Exit"
    /\ UNCHANGED <<wpc, api_key_present, mock, handlers, log, waits, result,
                   story, stdout, requests, errors, signals>>

\* sys.exit(ExitCode.API_ERROR)
exit_api_error ==
    /\ pc = "ApiReported"
    /\ latency_obs' = latency_obs + 1
    /\ exitCode' = <<API_ERROR>>
    /\ pc' = "Exit"
    /\ UNCHANGED <<wpc, api_key_present, mock, handlers, log, waits, result,
                   story, stdout, requests, errors, signals>>

\* ------------------------------------------------- 7) main(), after the run
\* typer.secho(story)
print_story ==
    /\ pc = "Returned"
    /\ stdout' = Append(stdout, story)
    /\ pc' = "Printed"
    /\ UNCHANGED <<wpc, api_key_present, mock, handlers, log, waits, result,
                   story, requests, errors, latency_obs, signals,
                   exitCode>>

\* sys.exit(ExitCode.SUCCESS)
exit_success ==
    /\ pc = "Printed"
    /\ exitCode' = <<SUCCESS>>
    /\ pc' = "Exit"
    /\ UNCHANGED <<wpc, api_key_present, mock, handlers, log, waits, result,
                   story, stdout, requests, errors, latency_obs, signals>>

\* ---------------------------------------------------------------- signals
\* the status the installed handler ends the process with:
\* lambda *_: sys.exit(ExitCode.SUCCESS)
HandlerStatusApiError == API_ERROR
HandlerStatus == SUCCESS

\* SIGINT or SIGTERM is delivered.  Before main() has installed the handlers
\* the default disposition applies and the process ends by the signal (status
\* 128 + signal number to the parent shell).  Afterwards the handler raises
\* SystemExit in the main thread: generate_story is abandoned where it stands,
\* and asyncio.run's teardown (shutdown_default_executor) joins the worker
\* thread before the process ends.
signal(sig) ==
    /\ pc # "Exit"
    /\ Len(signals) < MaxSignals
    /\ signals' = Append(signals, sig)
    /\ IF ~handlers
       THEN /\ exitCode' = <<128 + sig>>
            /\ pc' = "Exit"
            /\ latency_obs' = latency_obs
       ELSE /\ latency_obs' =
                 IF pc \in InLatencyBlock THEN latency_obs + 1 ELSE latency_obs
            /\ IF wpc \in {"call", "wait"}
               THEN /\ pc' = "Draining"
                    /\ exitCode' = exitCode
               ELSE /\ pc' = "Exit"
                    /\ exitCode' = <<HandlerStatus>>
    /\ UNCHANGED <<wpc, api_key_present, mock, handlers, log, waits, result,
                   story, stdout, requests, errors>>

\* the worker thread has finished and the interrupted process ends
drained ==
    /\ pc = "Draining"
    /\ wpc = "done"
    /\ exitCode' = <<HandlerStatus>>
    /\ pc' = "Exit"
    /\ UNCHANGED <<wpc, api_key_present, mock, handlers, log, waits, result,
                   story, stdout, requests, errors, latency_obs, signals>>

\* ------------------------------------------------------------------- spec
ProgramNext ==
    \/ start
    \/ load_settings
    \/ exit_config_error
    \/ main_install_handlers
    \/ generate_story_enter
    \/ \E r \in Responses : attempt(r)
    \/ backoff_elapsed
    \/ await_completes
    \/ report_quota
    \/ exit_quota
    \/ report_api_error
    \/ exit_api_error
    \/ print_story
    \/ exit_success
    \/ drained

Next ==
    \/ ProgramNext
    \/ \E sig \in Signals : signal(sig)

Spec == Init /\ [][Next]_vars

\* every step of the program is eventually taken; signals may never come
FairSpec == Spec /\ WF_vars(ProgramNext)

\* ----------------------------------------------------------- properties
NoSignal == signals = <<>>
Last(s) == s[Len(s)]
Transient(r) == r.kind = "err" /\ r.type \in {"RateLimitError", "Timeout"}
SignalDelivered == Len(signals') > Len(signals)

\* t is raw without its leading and trailing whitespace
IsTrimOf(t, raw) ==
    \E i \in 1..(Len(raw) + 1) : \E j \in 0..Len(raw) :
        /\ t = SubSeq(raw, i, j)
        /\ \A k \in 1..(i - 1) : raw[k] \in Whitespace
        /\ \A k \in (j + 1)..Len(raw) : raw[k] \in Whitespace
        /\ t # <<>> => (t[1] \notin Whitespace /\ t[Len(t)] \notin Whitespace)

\* C1: once generate_story has been invoked with mock = TRUE, it has returned
\* the canned sentence, no remote call was made or is pending, the error
\* counter is 0, the process ends with status 0, and a run no signal
\* interrupted has printed exactly the canned sentence.
C1_MockMode ==
    (mock /\ requests > 0) =>
        /\ story = CANNED_STORY
        /\ log = <<>>
        /\ wpc = "idle"
        /\ errors = 0
        /\ pc = "Exit" => exitCode = <<0>>
        /\ (pc = "Exit" /\ NoSignal) => stdout = <<CANNED_STORY>>

C1_Witness ==
    mock /\ requests = 1 /\ pc = "Exit" /\ NoSignal /\ exitCode = <<0>>

\* C2: when the API key is absent the process never gets past configuration,
\* makes no remote call, ends (unless a signal kills it first) with status 1,
\* and does end.
C2_MissingKey ==
    /\ [](~api_key_present =>
            /\ pc \in {"Start", "Configuring", "ConfigError", "Exit"}
            /\ log = <<>>
            /\ wpc = "idle"
            /\ requests = 0
            /\ (pc = "Exit" /\ NoSignal) => exitCode = <<1>>)
    /\ (~api_key_present ~> pc = "Exit")

C2_Witness ==
    ~api_key_present /\ pc = "Exit" /\ NoSignal /\ exitCode = <<1>> /\ log = <<>>

\* C3: with mock = FALSE, when all three attempts failed with a rate-limit
\* error, the retry wrapper is done and has raised the third attempt's error
\* itself, and a run no signal interrupted ends having printed exactly the
\* billing-plan message, with status 2.
AllRateLimited ==
    /\ Len(log) = 3
    /\ \A i \in 1..3 : log[i].kind = "err" /\ log[i].type = "RateLimitError"

C3_RateLimitExhausted ==
    (~mock /\ AllRateLimited) =>
        /\ wpc = "done"
        /\ result = log[3]
        /\ (pc = "Exit" /\ NoSignal) =>
               (stdout = <<BILLING_MESSAGE>> /\ exitCode = <<2>>)

C3_Witness ==
    ~mock /\ AllRateLimited /\ pc = "Exit" /\ NoSignal /\ exitCode = <<2>>

\* C4: with mock = FALSE, when the retry wrapper ended on a remote-API error
\* that is not a rate-limit error, the run never takes the quota or the
\* success path, and a run no signal interrupted ends having printed exactly
\* the marker followed by the error text, with status 3.
TerminalNonQuota ==
    /\ wpc = "done"
    /\ log # <<>>
    /\ Last(log).kind = "err"
    /\ Last(log).type # "RateLimitError"

C4_OtherApiError ==
    (~mock /\ TerminalNonQuota) =>
        /\ pc \notin {"QuotaExceeded", "QuotaReported", "Returned", "Printed"}
        /\ (pc = "Exit" /\ NoSignal) =>
               /\ stdout = << <<"API ERROR > ">> \o Last(log).text >>
               /\ exitCode = <<3>>

C4_Witness ==
    /\ ~mock /\ pc = "Exit" /\ NoSignal /\ exitCode = <<3>>
    /\ Len(log) = 3
    /\ \A i \in 1..3 : log[i].kind = "err" /\ log[i].type = "Timeout"

\* C5: at most 3 attempts are made; every attempt but the last one failed with
\* a rate-limit or timeout error; and while a further attempt is pending or
\* awaited after a wait, fewer than 3 were made and the last one failed that way.
C5_RetryOnlyTransient ==
    /\ Len(log) <= 3
    /\ \A i \in 1..(Len(log) - 1) : Transient(log[i])
    /\ wpc \in {"call", "wait"} =>
           /\ Len(log) < 3
           /\ log # <<>> => Transient(Last(log))

C5_Witness ==
    /\ Len(log) = 3 /\ wpc = "done"
    /\ Last(log).kind = "err" /\ Last(log).type = "OpenAIError"

\* C6: with mock = FALSE, a successful attempt k is the last remote call, k is
\* 1, 2 or 3, every earlier attempt failed with a rate-limit or timeout error,
\* the wrapper returns the response text of attempt k without its leading and
\* trailing whitespace, and a run no signal interrupted ends having printed
\* exactly that text, with status 0.
C6_SuccessOnAttemptK ==
    \A k \in 1..Len(log) :
        (~mock /\ log[k].kind = "ok") =>
            /\ k = Len(log)
            /\ k \in {1, 2, 3}
            /\ \A i \in 1..(k - 1) : Transient(log[i])
            /\ wpc = "done"
            /\ result.kind = "ok"
            /\ IsTrimOf(result.text, log[k].text)
            /\ (pc = "Exit" /\ NoSignal) =>
                   /\ Len(stdout) = 1
                   /\ IsTrimOf(stdout[1], log[k].text)
                   /\ exitCode = <<0>>

C6_Witness ==
    /\ ~mock /\ pc = "Exit" /\ NoSignal /\ exitCode = <<0>>
    /\ Len(log) = 3
    /\ log[3].kind = "ok"
    /\ log[3].text = <<" ", "a", " ">>
    /\ stdout = << <<"a">> >>

\* C7: the request counter is 1 from the entry of generate_story on and never
\* more; the error counter is 1 exactly when the invocation reached a failed
\* terminal outcome (quota exceeded or API error) and 0 when it succeeded or
\* is still waiting for the remote call, however many attempts were made.
C7_Counters ==
    /\ requests \in {0, 1}
    /\ errors \in {0, 1}
    /\ requests = 1 <=> (pc \in {"Awaiting", "Returned", "Printed", "QuotaExceeded",
                                 "QuotaReported", "ApiError", "ApiReported",
                                 "Draining"}
                         \/ (pc = "Exit" /\ (wpc # "idle" \/ story # <<>>)))
    /\ pc \in {"QuotaExceeded", "QuotaReported", "ApiError", "ApiReported"}
           => errors = 1
    /\ pc \in {"Start", "Configuring", "ConfigError", "Loaded", "Main",
               "Awaiting", "Returned", "Printed", "Draining"} => errors = 0
    /\ (pc = "Exit" /\ exitCode \in {<<2>>, <<3>>}) => errors = 1
    /\ (pc = "Exit" /\ NoSignal /\ exitCode \in {<<0>>, <<1>>}) => errors = 0

C7_Witness ==
    /\ pc = "Exit" /\ NoSignal /\ requests = 1 /\ errors = 1
    /\ Len(log) = 3

\* C8 as stated: a signal delivered in any in-flight state of the run
\* (Configuring, Generating, an error classified but the exit not yet made)
\* ends the process in that step with status 0.
C8_AnySignalExitsZeroAtOnce ==
    [][(SignalDelivered /\ pc # "Start") =>
           (pc' = "Exit" /\ exitCode' = <<0>>)]_vars

\* C8 as amended: a signal delivered after main() installed its handlers
\* abandons the run without further output or error counting, and the process
\* ends with status 0, in that step when no remote call or backoff wait is in
\* progress and otherwise once the worker thread has finished its retry
\* sequence; a signal delivered before that (Start, Configuring) ends the
\* process by the signal's default disposition, with status 130 or 143.
C8_SignalAfterHandlers ==
    [][/\ (SignalDelivered /\ handlers) =>
              /\ stdout' = stdout
              /\ errors' = errors
              /\ pc' = (IF wpc \in {"call", "wait"} THEN "Draining" ELSE "Exit")
              /\ pc' = "Exit" => exitCode' = <<0>>
       /\ (SignalDelivered /\ ~handlers) =>
              (pc' = "Exit" /\ exitCode' \in {<<130>>, <<143>>})
       /\ pc = "Draining" =>
              /\ stdout' = stdout
              /\ errors' = errors
              /\ pc' \in {"Draining", "Exit"}
              /\ pc' = "Exit" => (wpc = "done" /\ exitCode' = <<0>>)
      ]_vars

C8_Witness ==
    /\ pc = "Exit" /\ signals # <<>> /\ handlers
    /\ errors = 1 /\ stdout = <<>> /\ exitCode = <<0>>

\* C9: the phase of the run named by the position of the main thread
Phase(p) ==
    CASE p = "Start" -> "Start"
      [] p \in {"Configuring", "Loaded"} -> "Configuring"
      [] p \in {"Main", "Awaiting"} -> "Generating"
      [] p \in {"Returned", "Printed"} -> "Success"
      [] p = "ConfigError" -> "ConfigError"
      [] p \in {"QuotaExceeded", "QuotaReported"} -> "QuotaExceeded"
      [] p \in {"ApiError", "ApiReported"} -> "ApiError"
      [] p = "Draining" -> "Interrupted"
      [] p = "Exit" -> "Exit"

PhaseEdges ==
    {<<"Start", "Configuring">>,
     <<"Configuring", "Generating">>, <<"Configuring", "ConfigError">>,
     <<"Generating", "Success">>, <<"Generating", "QuotaExceeded">>,
     <<"Generating", "ApiError">>,
     <<"Success", "Exit">>, <<"ConfigError", "Exit">>,
     <<"QuotaExceeded", "Exit">>, <<"ApiError", "Exit">>}

StatusOfPhase(ph) ==
    CASE ph = "Success" -> 0
      [] ph = "ConfigError" -> 1
      [] ph = "QuotaExceeded" -> 2
      [] ph = "ApiError" -> 3

\* C9: in a run without signals every change of phase is an edge of
\* Start -> Configuring -> Generating -> {Success, ConfigError, QuotaExceeded,
\* ApiError} -> Exit (ConfigError being entered from Configuring), the process
\* exits from exactly one terminal outcome with that outcome's status 0, 1, 2
\* or 3, and every run eventually exits.
C9_RunStateMachine ==
    /\ [][(signals' = <<>> /\ Phase(pc') # Phase(pc)) =>
              /\ <<Phase(pc), Phase(pc')>> \in PhaseEdges
              /\ pc' = "Exit" => exitCode' = <<StatusOfPhase(Phase(pc))>>
         ]_vars
    /\ [](pc # "Exit" => exitCode = <<>>)
    /\ <>(pc = "Exit")

C9_Witness ==
    /\ pc = "Exit" /\ NoSignal /\ exitCode = <<3>>
    /\ Len(log) = 3 /\ Last(log).type = "Timeout"

\* C10: the wait after the first failed attempt is 1 second and after the
\* second 2 seconds, every wait lies between 1 and 10 seconds, at most two
\* waits occur, and a finished invocation has waited once less than it made
\* attempts: nothing is waited after its last attempt, whether that was the
\* third failure, a failure that is not retried, or a success.
C10_Backoff ==
    /\ Len(waits) <= 2
    /\ Len(waits) >= 1 => waits[1] = 1
    /\ Len(waits) >= 2 => waits[2] = 2
    /\ \A i \in 1..Len(waits) : waits[i] >= 1 /\ waits[i] <= 10
    /\ wpc = "idle" => (waits = <<>> /\ log = <<>>)
    /\ wpc = "call" => Len(waits) = Len(log)
    /\ wpc = "wait" => (Len(waits) = Len(log) /\ Transient(Last(log)))
    /\ wpc = "done" => Len(waits) = Len(log) - 1

C10_Witness ==
    /\ wpc = "done" /\ Len(log) = 3 /\ Last(log).kind = "err"
    /\ Transient(Last(log))
    /\ waits = <<1, 2>>

=============================================================================
